---------------------------- MODULE Spec2Model ----------------------------
(***************************************************************************)
(* A model of the dealer-feasibility projection engine:                    *)
(*   src/src/calculations/financial.py  (FinancialCalculator)              *)
(*   src/src/calculations/sales.py      (SalesCalculator.run_scenario,     *)
(*                                       calculate_product_sales,          *)
(*                                       calculate_product_revenue)        *)
(*                                                                         *)
(* Numbers.  A Python float is modelled by the exact rational it stands    *)
(* for, written <<n, d>> with d > 0 and gcd(n, d) = 1.  Pairs with d = 0   *)
(* are the values that are not numbers: None, a ZeroDivisionError raised   *)
(* by the computation, NaN, and Float (a finite float whose value the      *)
(* model does not compute, e.g. an irrational root).                       *)
(***************************************************************************)
EXTENDS Integers, Sequences, FiniteSets, TLC

VARIABLES
    dealer,        \* the DealerOutlet object handed to run_scenario
    scenario,      \* the Scenario object handed to run_scenario (mutable)
    dealer0,       \* the dealer as constructed (snapshot, never written)
    scenario0,     \* the scenario as constructed (snapshot, never written)
    results,       \* outcomes of the run_scenario calls made so far
    cash_flows,    \* FinancialCalculator input: the cash-flow vector
    discount_rate, \* FinancialCalculator input: the discount rate
    call,          \* the FinancialCalculator method last called ("none" before)
    out,           \* what that call returned
    numpy_has_irr, \* whether the installed numpy still has irr (it was
                   \* removed in numpy 1.20; no version is pinned)
    args           \* the arguments of a calculate_product_sales or
                   \* calculate_product_revenue call made on its own

vars == <<dealer, scenario, dealer0, scenario0, results,
          cash_flows, discount_rate, call, out, numpy_has_irr, args>>

---------------------------------------------------------------------------
(* Exact rational arithmetic (Python float arithmetic read as real         *)
(* arithmetic).                                                            *)

Abs(i) == IF i < 0 THEN -i ELSE i

RECURSIVE Gcd(_, _)
Gcd(a, b) == IF b = 0 THEN a ELSE Gcd(b, a % b)

Norm(n, d) ==
    LET s == IF d < 0 THEN -1 ELSE 1
        g == Gcd(Abs(n), Abs(d))
    IN  <<(s * n) \div g, (s * d) \div g>>

RInt(i) == <<i, 1>>
Zero == RInt(0)
One == RInt(1)

None == <<0, 0>>
ZeroDivisionError == <<1, 0>>
NaN == <<2, 0>>
Float == <<3, 0>>

IsNum(x) == x[2] > 0

RNeg(a) == <<-a[1], a[2]>>

RAdd(a, b) ==
    LET g == Gcd(a[2], b[2])
    IN  Norm(a[1] * (b[2] \div g) + b[1] * (a[2] \div g), (a[2] \div g) * b[2])

RSub(a, b) == RAdd(a, RNeg(b))

RMul(a, b) ==
    LET g1 == Gcd(Abs(a[1]), b[2])
        g2 == Gcd(Abs(b[1]), a[2])
    IN  IF a[1] = 0 \/ b[1] = 0 THEN Zero
        ELSE <<(a[1] \div g1) * (b[1] \div g2), (a[2] \div g2) * (b[2] \div g1)>>

\* b is not zero
RDiv(a, b) == RMul(a, IF b[1] < 0 THEN <<-b[2], -b[1]>> ELSE <<b[2], b[1]>>)

RSign(a) == IF a[1] < 0 THEN -1 ELSE IF a[1] = 0 THEN 0 ELSE 1
RLt(a, b) == RSign(RSub(a, b)) < 0
RLe(a, b) == RSign(RSub(a, b)) <= 0
RAbs(a) == <<Abs(a[1]), a[2]>>
RMax(a, b) == IF RLt(a, b) THEN b ELSE a
RMin(a, b) == IF RLt(b, a) THEN b ELSE a

\* a ** k for an integer k >= 0 (Python: x ** 0 = 1, also for x = 0)
RECURSIVE RPow(_, _)
RPow(a, k) ==
    IF k = 0 THEN One
    ELSE IF k = 1 THEN a
    ELSE RMul(RPow(a, k \div 2), RPow(a, k - k \div 2))

\* round(x, 2): to the nearest multiple of 0.01, a tie to the even one
Round2(x) ==
    LET whole == x[1] \div x[2]
        frac == (x[1] - whole * x[2]) * 100
        fl == whole * 100 + frac \div x[2]
        rem == frac - (frac \div x[2]) * x[2]
        k == IF 2 * rem < x[2] THEN fl
             ELSE IF 2 * rem > x[2] THEN fl + 1
             ELSE IF fl % 2 = 0 THEN fl ELSE fl + 1
    IN  Norm(k, 100)

\* sum(xs) of a sequence of numbers
RECURSIVE SumRange(_, _, _)
SumRange(xs, lo, hi) ==
    IF lo > hi THEN Zero
    ELSE IF lo = hi THEN xs[lo]
    ELSE RAdd(SumRange(xs, lo, (lo + hi) \div 2), SumRange(xs, (lo + hi) \div 2 + 1, hi))

RSum(xs) == SumRange(xs, 1, Len(xs))

\* the integer square root of n >= 0 when n is a perfect square, else -1
RECURSIVE SqrtBetween(_, _, _)
SqrtBetween(n, lo, hi) ==
    IF lo > hi THEN -1
    ELSE LET mid == (lo + hi) \div 2
         IN  IF mid * mid = n THEN mid
             ELSE IF mid * mid < n THEN SqrtBetween(n, mid + 1, hi)
             ELSE SqrtBetween(n, lo, mid - 1)

ISqrt(n) == SqrtBetween(n, 0, IF n < 46340 THEN n ELSE 46340)

\* the square root of a >= 0 when it is rational, else None
RSqrt(a) ==
    IF ISqrt(a[1]) < 0 \/ ISqrt(a[2]) < 0 THEN None ELSE <<ISqrt(a[1]), ISqrt(a[2])>>

---------------------------------------------------------------------------
(* FinancialCalculator (financial.py).  A cash-flow vector is a sequence;  *)
(* Python's index t is position t + 1.                                     *)

\* [cf / (1 + discount_rate) ** t for t, cf in enumerate(cash_flows)];
\* cf / 0.0 raises ZeroDivisionError (0.0 ** 0 is 1.0, so only from t = 1 on)
DivisionByZero(cf, rate) == Len(cf) >= 2 /\ RAdd(One, rate) = Zero

discounted_flows(cf, rate) ==
    [i \in 1..Len(cf) |-> RDiv(cf[i], RPow(RAdd(One, rate), i - 1))]

\* the exact, unrounded net present value
ExactNpv(cf, rate) == RSum(discounted_flows(cf, rate))

\* a net present value that leaves out the year-0 entry (not what the code does)
calculate_npv_skip0(cf, rate) ==
    IF DivisionByZero(cf, rate) THEN ZeroDivisionError
    ELSE Round2(RSum(Tail(discounted_flows(cf, rate))))

calculate_npv(cf, rate) ==
    IF DivisionByZero(cf, rate) THEN ZeroDivisionError
    ELSE Round2(RSum(discounted_flows(cf, rate)))

has_negative(cf) == \E i \in 1..Len(cf) : RSign(cf[i]) < 0
has_positive(cf) == \E i \in 1..Len(cf) : RSign(cf[i]) > 0

\* numpy's irr(values): the real roots x > 0 of sum(values[t] * x ** t), each
\* giving the rate 1 / x - 1; the rate of least magnitude, NaN when there is
\* none.  The model computes the root of a polynomial of degree 1, and the
\* roots of one of degree 2 when they are rational and its normalised
\* coefficients are fractions of numbers up to IrrLimit; any other root the
\* library finds is the value Float.
IrrLimit == 200

Small(x) == Abs(x[1]) <= IrrLimit /\ x[2] <= IrrLimit

Degree(cf) ==
    IF \E i \in 1..Len(cf) : cf[i] # Zero
    THEN (CHOOSE i \in 1..Len(cf) : cf[i] # Zero /\ \A j \in (i + 1)..Len(cf) : cf[j] = Zero) - 1
    ELSE -1

RateOf(x) == RSub(RDiv(One, x), One)

closest_to_zero(rate1, rate2) ==
    IF RLt(RAbs(rate1), RAbs(rate2)) THEN rate1
    ELSE IF RLt(RAbs(rate2), RAbs(rate1)) THEN rate2
    ELSE Float

\* the rate for the real roots x1 > x2 of a polynomial of degree 2
rate_of_roots(x1, x2) ==
    IF RSign(x1) <= 0 THEN NaN
    ELSE IF RSign(x2) <= 0 THEN RateOf(x1)
    ELSE closest_to_zero(RateOf(x1), RateOf(x2))

\* x * x + p * x + q with discriminant disc > 0 whose square root is s (None
\* when it is irrational)
irr_two_roots(p, q, s) ==
    IF ~IsNum(s) THEN (IF RSign(q) < 0 \/ RSign(p) < 0 THEN Float ELSE NaN)
    ELSE rate_of_roots(RDiv(RSub(s, p), RInt(2)), RDiv(RSub(RNeg(s), p), RInt(2)))

irr_quadratic(p, q, disc) ==
    IF RSign(disc) < 0 THEN NaN
    ELSE IF RSign(disc) = 0 THEN (IF RSign(p) < 0 THEN Float ELSE NaN)
    ELSE irr_two_roots(p, q, RSqrt(disc))

irr_degree2(p, q) ==
    IF ~(Small(p) /\ Small(q)) THEN Float
    ELSE irr_quadratic(p, q, RSub(RMul(p, p), RMul(RInt(4), q)))

irr_degree1(x) == IF RSign(x) > 0 THEN RateOf(x) ELSE NaN

np_irr(cf) ==
    IF Degree(cf) <= 0 THEN NaN
    ELSE IF Degree(cf) = 1 THEN irr_degree1(RNeg(RDiv(cf[1], cf[2])))
    ELSE IF Degree(cf) = 2 THEN irr_degree2(RDiv(cf[2], cf[3]), RDiv(cf[1], cf[3]))
    ELSE Float

\* round(float(irr) * 100, 2), or None when irr is NaN
percentage(irr) ==
    IF irr = NaN THEN None
    ELSE IF irr = Float THEN Float
    ELSE Round2(RMul(irr, RInt(100)))

\* round(float(irr), 2): the rate left as a fraction (not what the code does)
fraction(irr) ==
    IF irr = NaN THEN None
    ELSE IF irr = Float THEN Float
    ELSE Round2(irr)

\* an IRR returned as a fraction, not multiplied by 100 (not what the code does)
calculate_irr_as_fraction(cf) ==
    IF ~(has_negative(cf) /\ has_positive(cf)) THEN None
    ELSE IF ~numpy_has_irr THEN None    \* AttributeError, caught at line 55
    ELSE fraction(np_irr(cf))

calculate_irr(cf) ==
    IF ~(has_negative(cf) /\ has_positive(cf)) THEN None
    ELSE IF ~numpy_has_irr THEN None    \* AttributeError, caught at line 55
    ELSE percentage(np_irr(cf))

\* the loop of calculate_payback_period from Python index i on, `before`
\* being the running sum of the entries below i
RECURSIVE PaybackLoop(_, _, _)
PaybackLoop(cf, i, before) ==
    IF i >= Len(cf) THEN None
    ELSE LET cumulative == RAdd(before, cf[i + 1])
         IN  IF RSign(cumulative) >= 0
             THEN IF i > 0 /\ cf[i + 1] # Zero
                  THEN Round2(RAdd(RInt(i - 1), RDiv(RNeg(before), cf[i + 1])))
                  ELSE RInt(i)
             ELSE PaybackLoop(cf, i + 1, cumulative)

\* a payback period counted from year 1 (not what the code does)
calculate_payback_period_one_based(cf) ==
    IF PaybackLoop(cf, 0, Zero) = None THEN None ELSE RAdd(PaybackLoop(cf, 0, Zero), One)

\* a payback period that counts the year of recovery in full (not what the
\* code does)
calculate_payback_period_whole_years(cf) ==
    IF PaybackLoop(cf, 0, Zero) = None THEN None
    ELSE RInt(-((-PaybackLoop(cf, 0, Zero)[1]) \div PaybackLoop(cf, 0, Zero)[2]))

calculate_payback_period(cf) == PaybackLoop(cf, 0, Zero)

\* the loop of calculate_discounted_payback_period over the discounted flows
RECURSIVE DiscountedPaybackLoop(_, _, _)
DiscountedPaybackLoop(dcf, i, before) ==
    IF i >= Len(dcf) THEN None
    ELSE LET cumulative == RAdd(before, dcf[i + 1])
         IN  IF RSign(cumulative) >= 0
             THEN IF i > 0 /\ dcf[i + 1] # Zero
                  THEN Round2(RAdd(RInt(i - 1), RDiv(RSub(Zero, RSub(cumulative, dcf[i + 1])), dcf[i + 1])))
                  ELSE RInt(i)
             ELSE DiscountedPaybackLoop(dcf, i + 1, cumulative)

\* a discounted payback period taken from the flows as they are (not what
\* the code does)
calculate_discounted_payback_period_undiscounted(cf, rate) ==
    IF DivisionByZero(cf, rate) THEN ZeroDivisionError
    ELSE PaybackLoop(cf, 0, Zero)

calculate_discounted_payback_period(cf, rate) ==
    IF DivisionByZero(cf, rate) THEN ZeroDivisionError
    ELSE DiscountedPaybackLoop(discounted_flows(cf, rate), 0, Zero)

\* cumulative_cash_flows of calculate_metrics: the running sums
cumulative_flows(cf) == [i \in 1..Len(cf) |-> SumRange(cf, 1, i)]

\* MIRR is (base ** (1 / root)) - 1, kept as the pair; MirrZero is the number 0
MirrZero == [base |-> Zero, root |-> 0]

positive_flows(cf) == [i \in 1..Len(cf) |-> RMax(Zero, cf[i])]
negative_flows(cf) == [i \in 1..Len(cf) |-> RMin(Zero, cf[i])]

terminal_value(cf, reinvestment_rate) ==
    RSum([i \in 1..Len(cf) |->
            RMul(positive_flows(cf)[i], RPow(RAdd(One, reinvestment_rate), Len(cf) - i))])

\* a present value that adds the negative flows up undiscounted (not what the
\* code does)
pv_negative_undiscounted(cf, rate) ==
    RSum([i \in 1..Len(cf) |-> RAbs(negative_flows(cf)[i])])

pv_negative(cf, rate) ==
    RSum([i \in 1..Len(cf) |->
            RDiv(RAbs(negative_flows(cf)[i]), RPow(RAdd(One, rate), i - 1))])

mirr_of(tv, pv, n) ==
    IF RSign(tv) > 0 /\ RSign(pv) > 0 THEN [base |-> RDiv(tv, pv), root |-> n - 1]
    ELSE MirrZero

calculate_mirr(cf, rate, reinvestment) ==
    IF RSum(positive_flows(cf)) = Zero \/ RSum(negative_flows(cf)) = Zero THEN MirrZero
    ELSE IF DivisionByZero(cf, rate) THEN MirrZero
    ELSE mirr_of(terminal_value(cf, reinvestment), pv_negative(cf, rate), Len(cf))

\* calculate_metrics returns (npv, irr, payback, discounted, cumulative, mirr),
\* or raises what calculate_npv raised
MetricsRaised(e) ==
    [raised |-> TRUE, error |-> e, npv |-> None, irr |-> None, payback |-> None,
     discounted_cash_flows |-> <<>>, cumulative_cash_flows |-> <<>>, mirr |-> MirrZero]

metrics(cf, rate, reinvestment_rate, npv, irr_result, payback) ==
    IF npv = ZeroDivisionError THEN MetricsRaised(ZeroDivisionError)
    ELSE [raised |-> FALSE, error |-> None,
          npv |-> npv,
          irr |-> IF irr_result = None THEN Zero
                  ELSE IF irr_result = Float THEN Float
                  ELSE RDiv(irr_result, RInt(100)),
          payback |-> IF payback = None THEN RInt(Len(cf)) ELSE payback,
          discounted_cash_flows |-> discounted_flows(cf, rate),
          cumulative_cash_flows |-> cumulative_flows(cf),
          mirr |-> calculate_mirr(cf, rate,
                      IF reinvestment_rate = None THEN rate ELSE reinvestment_rate)]

calculate_metrics(cf, rate, reinvestment_rate) ==
    metrics(cf, rate, reinvestment_rate,
            calculate_npv(cf, rate), calculate_irr(cf), calculate_payback_period(cf))

---------------------------------------------------------------------------
(* SalesCalculator (sales.py).  A Python dict keyed by year is a function  *)
(* on a finite set of years; {} is the function on the empty set.  A       *)
(* per-product entry of default_growth_rates or default_margins is a       *)
(* record: tag "dict" with the mapping in .dict, tag "scalar" with a       *)
(* number in .scalar, tag "nonnumeric" for a scalar float() rejects, and   *)
(* tag "missing" when the product is not a key of the table.               *)

Products == {"pmg", "hsd", "hobc", "lube"}

EmptyDict == <<>>
Dict1(v) == [y \in {1} |-> v]

AsDict(d) == [tag |-> "dict", scalar |-> Zero, dict |-> d]
AsScalar(v) == [tag |-> "scalar", scalar |-> v, dict |-> EmptyDict]
NonNumeric == [tag |-> "nonnumeric", scalar |-> Zero, dict |-> EmptyDict]
Missing == [tag |-> "missing", scalar |-> Zero, dict |-> EmptyDict]

DefaultAnalysisYears == 15
DaysPerYear == 365
DefaultGrowth == <<1, 20>>
DefaultMargin == RInt(5)
DefaultInsuranceRate == <<1, 100>>

\* default_values of run_scenario: {'pmg': 5.0, 'hsd': 4.0, 'hobc': 6.0, 'lube': 100.0}
default_values(product) ==
    CASE product = "pmg" -> RInt(5)
      [] product = "hsd" -> RInt(4)
      [] product = "hobc" -> RInt(6)
      [] product = "lube" -> RInt(100)

\* the defaults of the .get() calls of run_scenario for a growth table
get_default_growth(product) ==
    CASE product = "pmg" -> <<1, 20>>
      [] product = "hsd" -> <<1, 20>>
      [] product = "hobc" -> <<3, 50>>
      [] product = "lube" -> <<1, 100>>

\* range(1, years + 1)
YearRange(years) == 1..years

\* a non-dict branch that takes the default for every scalar (not what the
\* code does)
Uniform_ignoring_scalar(entry, years, default) ==
    IF entry.tag = "dict" THEN entry.dict
    ELSE [y \in YearRange(years) |-> default]

\* the non-dict branch of calculate_product_sales / calculate_product_revenue:
\* a scalar becomes {year: scalar for year in range(1, years + 1)}, a scalar
\* float() rejects becomes the default in every year
Uniform(entry, years, default) ==
    IF entry.tag = "dict" THEN entry.dict
    ELSE IF entry.tag = "scalar" THEN [y \in YearRange(years) |-> entry.scalar]
    ELSE [y \in YearRange(years) |-> default]

\* sorted([int(year) for year in rates.keys() if int(year) <= years])
defined_years(rates, years) == {y \in DOMAIN rates : y <= years}

SetMax(S) == CHOOSE x \in S : \A y \in S : y <= x
SetMin(S) == CHOOSE x \in S : \A y \in S : x <= y

\* a dense table that gives the years below the lowest key the default
\* instead of the lowest key's value (not what the code does)
Interpolate_default_below(rates0, years, default) ==
    LET none == defined_years(rates0, years) = {}
        defined == IF none THEN {1} ELSE defined_years(rates0, years)
        rates == IF none THEN Dict1(default) ELSE rates0
    IN  [year \in YearRange(years) |->
            IF year \in DOMAIN rates THEN rates[year]
            ELSE LET lower == {y \in defined : y < year}
                     upper == {y \in defined : y > year}
                 IN  IF lower = {} THEN default
                     ELSE IF upper = {} THEN rates[SetMax(defined)]
                     ELSE LET lower_year == SetMax(lower)
                              upper_year == SetMin(upper)
                              ratio == Norm(year - lower_year, upper_year - lower_year)
                          IN  RAdd(rates[lower_year],
                                   RMul(RSub(rates[upper_year], rates[lower_year]), ratio))]

\* a dense table interpolated with the ratio upside down (not what the code
\* does)
Interpolate_ratio_inverted(rates0, years, default) ==
    LET none == defined_years(rates0, years) = {}
        defined == IF none THEN {1} ELSE defined_years(rates0, years)
        rates == IF none THEN Dict1(default) ELSE rates0
    IN  [year \in YearRange(years) |->
            IF year \in DOMAIN rates THEN rates[year]
            ELSE LET lower == {y \in defined : y < year}
                     upper == {y \in defined : y > year}
                 IN  IF lower = {} THEN rates[SetMin(defined)]
                     ELSE IF upper = {} THEN rates[SetMax(defined)]
                     ELSE LET lower_year == SetMax(lower)
                              upper_year == SetMin(upper)
                              ratio == Norm(upper_year - lower_year, year - lower_year)
                          IN  RAdd(rates[lower_year],
                                   RMul(RSub(rates[upper_year], rates[lower_year]), ratio))]

\* a dense table that holds the lower key's value up to the next key instead
\* of interpolating (not what the code does)
Interpolate_step(rates0, years, default) ==
    LET none == defined_years(rates0, years) = {}
        defined == IF none THEN {1} ELSE defined_years(rates0, years)
        rates == IF none THEN Dict1(default) ELSE rates0
    IN  [year \in YearRange(years) |->
            IF year \in DOMAIN rates THEN rates[year]
            ELSE LET lower == {y \in defined : y < year}
                 IN  IF lower = {} THEN rates[SetMin(defined)]
                     ELSE rates[SetMax(lower)]]

\* the dense table all_growth_rates / all_margins for the years 1..years
Interpolate(rates0, years, default) ==
    LET none == defined_years(rates0, years) = {}
        defined == IF none THEN {1} ELSE defined_years(rates0, years)
        rates == IF none THEN Dict1(default) ELSE rates0
    IN  [year \in YearRange(years) |->
            IF year \in DOMAIN rates THEN rates[year]
            ELSE LET lower == {y \in defined : y < year}
                     upper == {y \in defined : y > year}
                 IN  IF lower = {} THEN rates[SetMin(defined)]
                     ELSE IF upper = {} THEN rates[SetMax(defined)]
                     ELSE LET lower_year == SetMax(lower)
                              upper_year == SetMin(upper)
                              ratio == Norm(year - lower_year, upper_year - lower_year)
                          IN  RAdd(rates[lower_year],
                                   RMul(RSub(rates[upper_year], rates[lower_year]), ratio))]

all_growth_rates(entry, years) ==
    Interpolate(Uniform(entry, years, DefaultGrowth), years, DefaultGrowth)

all_margins(entry, years) ==
    Interpolate(Uniform(entry, years, DefaultMargin), years, DefaultMargin)

\* yearly_sales of calculate_product_sales: year 0 is base_sales * 365, each
\* later year the year before times (1 + growth): the base times the product
\* of (1 + growth[y]) over the years lo..hi = 1..year
RECURSIVE GrowthFactor(_, _, _)
GrowthFactor(growth, lo, hi) ==
    IF lo > hi THEN One
    ELSE IF lo = hi THEN RAdd(One, growth[lo])
    ELSE RMul(GrowthFactor(growth, lo, (lo + hi) \div 2),
              GrowthFactor(growth, (lo + hi) \div 2 + 1, hi))

\* growth that adds up instead of compounding (not what the code does)
Compound_additive(annual_base, growth, year) ==
    RMul(annual_base, RAdd(One, SumRange(growth, 1, year)))

Compound(annual_base, growth, year) == RMul(annual_base, GrowthFactor(growth, 1, year))

calculate_product_sales(base_sales, entry, years) ==
    LET growth == all_growth_rates(entry, years)
        annual_base == RMul(base_sales, RInt(DaysPerYear))
    IN  [year \in {0} \cup YearRange(years) |-> Compound(annual_base, growth, year)]

\* sales_volumes.get(year, 0)
GetOr(d, key, default) == IF key \in DOMAIN d THEN d[key] ELSE default

\* a margin inflated by one year more than the code inflates it (not what the
\* code does)
margin_inflated_from_year_0(margins, year, inflation_rate) ==
    IF year = 0 THEN GetOr(margins, 1, DefaultMargin)
    ELSE RMul(GetOr(margins, year, GetOr(margins, 1, DefaultMargin)),
              RPow(RAdd(One, inflation_rate), year))

\* the margin of a year: year 0 takes the margin of year 1 as it is, a later
\* year its own margin inflated from year 1 on
margin(margins, year, inflation_rate) ==
    IF year = 0 THEN GetOr(margins, 1, DefaultMargin)
    ELSE RMul(GetOr(margins, year, GetOr(margins, 1, DefaultMargin)),
              RPow(RAdd(One, inflation_rate), year - 1))

yearly_revenue(sales_volumes, margins, years, inflation_rate) ==
    [year \in 0..years |->
        RMul(GetOr(sales_volumes, year, Zero), margin(margins, year, inflation_rate))]

calculate_product_revenue(sales_volumes, entry, years, inflation_rate) ==
    yearly_revenue(sales_volumes, all_margins(entry, years), years, inflation_rate)

\* run_scenario, lines 344-367: what the call writes into the scenario before
\* it computes anything.  analysis_years is [isint, value]: isint is
\* isinstance(analysis_years, int).
normalize_years(analysis_years) ==
    IF analysis_years.isint THEN analysis_years
    ELSE [isint |-> TRUE, value |-> DefaultAnalysisYears]

normalize_growth(product, entry) ==
    IF entry.tag = "dict" THEN entry
    ELSE IF entry.tag = "scalar" THEN AsDict(Dict1(entry.scalar))
    ELSE AsDict(Dict1(DefaultGrowth))

normalize_margin(product, entry) ==
    IF entry.tag = "dict" THEN entry
    ELSE IF entry.tag = "scalar" THEN AsDict(Dict1(entry.scalar))
    ELSE AsDict(Dict1(default_values(product)))

normalize(sc) ==
    [sc EXCEPT
        !.analysis_years = normalize_years(sc.analysis_years),
        !.default_growth_rates =
            [p \in Products |-> normalize_growth(p, sc.default_growth_rates[p])],
        !.default_margins =
            [p \in Products |-> normalize_margin(p, sc.default_margins[p])]]

\* scenario.default_growth_rates.get(product, {1: ...}) after the normalisation
get_growth(sc, product) ==
    IF sc.default_growth_rates[product].tag = "missing"
    THEN AsDict(Dict1(get_default_growth(product)))
    ELSE sc.default_growth_rates[product]

get_margin(sc, product) ==
    IF sc.default_margins[product].tag = "missing"
    THEN AsDict(Dict1(default_values(product)))
    ELSE sc.default_margins[product]

base_sales(d, product) ==
    CASE product = "pmg" -> d.pmg_sales
      [] product = "hsd" -> d.hsd_sales
      [] product = "hobc" -> d.hobc_sales
      [] product = "lube" -> d.lube_sales

inflation_factor(sc, year) == RPow(RAdd(One, sc.inflation_rate), year - 1)

product_sales(d, sc, years) ==
    [p \in Products |-> calculate_product_sales(base_sales(d, p), get_growth(sc, p), years)]

product_revenue(sales, sc, years) ==
    [p \in Products |->
        calculate_product_revenue(sales[p], get_margin(sc, p), years, sc.inflation_rate)]

total_revenue(revenue, years) ==
    [year \in 0..years |->
        RAdd(RAdd(RAdd(GetOr(revenue["pmg"], year, Zero), GetOr(revenue["hsd"], year, Zero)),
                  GetOr(revenue["hobc"], year, Zero)),
             GetOr(revenue["lube"], year, Zero))]

operating_costs(d, sc, years) ==
    [year \in 0..years |->
        IF year = 0 THEN Zero
        ELSE RMul(RMul(d.operating_costs, RInt(12)), inflation_factor(sc, year))]

\* a maintenance that drops the other maintenance in a year of signage
\* maintenance (not what the code does)
maintenance_one_event_a_year(sc, years) ==
    [year \in 0..years |->
        IF year > 0 /\ year % sc.signage_maintenance_year = 0 /\ year <= years
        THEN RMul(sc.signage_maintenance, inflation_factor(sc, year))
        ELSE IF year = sc.other_maintenance_year
        THEN RMul(sc.other_maintenance, inflation_factor(sc, year))
        ELSE Zero]

maintenance(sc, years) ==
    [year \in 0..years |->
        RAdd(IF year > 0 /\ year % sc.signage_maintenance_year = 0 /\ year <= years
             THEN RMul(sc.signage_maintenance, inflation_factor(sc, year)) ELSE Zero,
             IF year = sc.other_maintenance_year
             THEN RMul(sc.other_maintenance, inflation_factor(sc, year)) ELSE Zero)]

\* a rate that is 1% whatever the scenario provides (not what the code does)
insurance_rate_always_default(sc) == DefaultInsuranceRate

\* scenario.insurance_rates.get('property', 0.01); None stands for no such key
insurance_rate(sc) ==
    IF sc.insurance_property = None THEN DefaultInsuranceRate ELSE sc.insurance_property

insurance(d, sc, years) ==
    [year \in 0..years |->
        IF year = 0 THEN Zero
        ELSE RMul(RMul(d.initial_investment, insurance_rate(sc)), inflation_factor(sc, year))]

\* a rental income that ends one year before end_year (not what the code
\* does)
rental_income_end_exclusive(d, sc, years) ==
    [year \in 0..years |->
        RSum([k \in 1..Len(d.rental_streams) |->
                IF d.rental_streams[k].start_year <= year /\ year < d.rental_streams[k].end_year
                THEN RMul(RMul(d.rental_streams[k].monthly_rent, RInt(12)),
                          inflation_factor(sc, year))
                ELSE Zero])]

rental_income(d, sc, years) ==
    [year \in 0..years |->
        RSum([k \in 1..Len(d.rental_streams) |->
                IF d.rental_streams[k].start_year <= year /\ year <= d.rental_streams[k].end_year
                THEN RMul(RMul(d.rental_streams[k].monthly_rent, RInt(12)),
                          inflation_factor(sc, year))
                ELSE Zero])]

\* the net cash flow of a year >= 1
\* cf -= max(0, cf) * tax_rate
\* a tax that credits losses as it charges profits (not what the code does)
after_tax_symmetric(cf, tax_rate) == RSub(cf, RMul(cf, tax_rate))

after_tax(cf, tax_rate) == RSub(cf, RMul(RMax(Zero, cf), tax_rate))

\* a net cash flow that leaves the rental income out (not what the code does)
net_cash_flow_without_rent(yd, sc, year) ==
    after_tax(RSub(RSub(RSub(GetOr(yd.total_revenue, year, Zero),
                             GetOr(yd.operating_costs, year, Zero)),
                        GetOr(yd.maintenance, year, Zero)),
                   GetOr(yd.insurance, year, Zero)),
              sc.tax_rate)

net_cash_flow(yd, sc, year) ==
    after_tax(RAdd(RSub(RSub(RSub(GetOr(yd.total_revenue, year, Zero),
                                  GetOr(yd.operating_costs, year, Zero)),
                             GetOr(yd.maintenance, year, Zero)),
                        GetOr(yd.insurance, year, Zero)),
                   GetOr(yd.rental_income, year, Zero)),
              sc.tax_rate)

yearly_record(d, sc, years, sales, revenue) ==
        [pmg_sales |-> sales["pmg"], hsd_sales |-> sales["hsd"],
         hobc_sales |-> sales["hobc"], lube_sales |-> sales["lube"],
         pmg_revenue |-> revenue["pmg"], hsd_revenue |-> revenue["hsd"],
         hobc_revenue |-> revenue["hobc"], lube_revenue |-> revenue["lube"],
         total_revenue |-> total_revenue(revenue, years),
         operating_costs |-> operating_costs(d, sc, years),
         maintenance |-> maintenance(sc, years),
         insurance |-> insurance(d, sc, years),
         rental_income |-> rental_income(d, sc, years)]

with_sales(d, sc, years, sales) ==
    yearly_record(d, sc, years, sales, product_revenue(sales, sc, years))

yearly_data(d, sc, years) == with_sales(d, sc, years, product_sales(d, sc, years))

net_cash_flows(d, sc, yd, years) ==
    <<RNeg(d.initial_investment)>> \o [year \in 1..years |-> net_cash_flow(yd, sc, year)]

\* The outcome of run_scenario(dealer, scenario) for the scenario as the
\* normalisation left it: the exception it re-raises, or the results dict.
NoResult == [years |-> 0]

results_dict(d, years, yd, cfs, m) ==
    IF m.raised THEN [raised |-> TRUE, error |-> m.error, result |-> NoResult]
    ELSE [raised |-> FALSE, error |-> None,
          result |-> [npv |-> m.npv,
                      irr |-> m.irr,
                      payback_period |-> m.payback,
                      mirr |-> m.mirr,
                      cash_flows |-> cfs,
                      discounted_cash_flows |-> m.discounted_cash_flows,
                      cumulative_cash_flows |-> m.cumulative_cash_flows,
                      yearly_data |-> yd,
                      initial_investment |-> d.initial_investment,
                      years |-> years]]

with_cash_flows(d, sc, yd, cfs) ==
    results_dict(d, sc.analysis_years.value, yd, cfs,
                 calculate_metrics(cfs, sc.discount_rate, None))

with_yearly_data(d, sc, yd) ==
    with_cash_flows(d, sc, yd, net_cash_flows(d, sc, yd, sc.analysis_years.value))

projection(d, sc) == with_yearly_data(d, sc, yearly_data(d, sc, sc.analysis_years.value))

\* a run that computes from the tables as given and writes the normalised
\* tables only afterwards (not what the code does)
run_scenario_normalize_late(d, sc) ==
    [scenario |-> normalize(sc),
     outcome |-> projection(d, [sc EXCEPT !.analysis_years = normalize_years(@)])]

\* run_scenario: the scenario as the call leaves it, and the outcome
run_scenario(d, sc) == [scenario |-> normalize(sc), outcome |-> projection(d, normalize(sc))]

---------------------------------------------------------------------------
(* The FinancialCalculator methods called on their own: FinSpec draws a    *)
(* cash-flow vector and a discount rate and applies one method to them.    *)

MaxLen == 3

CfValues == {<<-3, 1>>, <<-1, 1>>, <<0, 1>>, <<1, 8>>, <<1, 1>>, <<4, 1>>}
DiscountRates == {Zero, One, <<1, 2>>, <<-1, 1>>}

Vectors == UNION {[1..n -> CfValues] : n \in 1..MaxLen}

NoArgs == [name |-> "none"]
NoDealer == [name |-> "none"]
NoScenario == [name |-> "none"]

FinInit ==
    /\ cash_flows \in Vectors
    /\ discount_rate \in DiscountRates
    /\ call = "none"
    /\ out = None
    /\ dealer = NoDealer /\ dealer0 = NoDealer
    /\ scenario = NoScenario /\ scenario0 = NoScenario
    /\ results = <<>>
    /\ numpy_has_irr \in BOOLEAN
    /\ args = NoArgs

Returns(method, value) ==
    /\ call = "none"
    /\ call' = method
    /\ out' = value
    /\ UNCHANGED <<dealer, scenario, dealer0, scenario0, results, cash_flows,
                   discount_rate, numpy_has_irr, args>>

CalculateNpv == Returns("calculate_npv", calculate_npv(cash_flows, discount_rate))
CalculateIrr == Returns("calculate_irr", calculate_irr(cash_flows))
CalculatePaybackPeriod ==
    Returns("calculate_payback_period", calculate_payback_period(cash_flows))
CalculateDiscountedPaybackPeriod ==
    Returns("calculate_discounted_payback_period",
            calculate_discounted_payback_period(cash_flows, discount_rate))
CalculateMetrics ==
    Returns("calculate_metrics", calculate_metrics(cash_flows, discount_rate, None))

FinNext ==
    \/ CalculateNpv
    \/ CalculateIrr
    \/ CalculatePaybackPeriod
    \/ CalculateDiscountedPaybackPeriod
    \/ CalculateMetrics

FinSpec == FinInit /\ [][FinNext]_vars

---------------------------------------------------------------------------
(* run_scenario called on a dealer and a scenario: Spec draws the two      *)
(* objects and calls run_scenario on them, again and again.                *)

MaxYears == 2
MaxCalls == 2

Half == <<1, 2>>

\* analysis_years: an int from -1 to MaxYears, or a value that is no int
AnalysisYears ==
    {[isint |-> TRUE, value |-> y] : y \in -1..MaxYears} \cup {[isint |-> FALSE, value |-> 0]}

\* the per-product daily volumes (pmg, hsd, hobc, lube)
Volumes ==
    {<<0, 0, 0, 0>>, <<1, 0, 0, 0>>, <<0, 1, 0, 0>>, <<0, 0, 1, 0>>, <<0, 0, 0, 1>>,
     <<1, 1, 1, 1>>, <<-1, 0, 0, 0>>}

Dealer(v, investment, costs, streams) ==
    [pmg_sales |-> RInt(v[1]), hsd_sales |-> RInt(v[2]),
     hobc_sales |-> RInt(v[3]), lube_sales |-> RInt(v[4]),
     initial_investment |-> RInt(investment),
     operating_costs |-> RInt(costs),
     rental_streams |-> streams]

Stream(start, end, rent) == [start_year |-> start, end_year |-> end, monthly_rent |-> RInt(rent)]

Dealers ==
    {Dealer(v, i, 100, <<>>) : v \in Volumes, i \in {0, 1000}}
    \cup {Dealer(<<1, 1, 1, 1>>, -1000, 100, <<>>),
          Dealer(<<1, 0, 0, 0>>, 1000, 0, <<Stream(1, 1, 10), Stream(1, 2, 5)>>),
          Dealer(<<0, 0, 0, 0>>, 1000, 0, <<Stream(1, 1, 10)>>)}

\* growth and margin tables, each product -> entry
Table(pmg, hsd, hobc, lube) ==
    [p \in Products |-> CASE p = "pmg" -> pmg [] p = "hsd" -> hsd
                          [] p = "hobc" -> hobc [] p = "lube" -> lube]
All(e) == Table(e, e, e, e)

MixedGrowth ==
    Table(AsScalar(Half), AsDict([y \in {1, 3} |-> RInt(y - 1)]),
          Missing, AsDict([y \in {2} |-> One]))
MixedMargins ==
    Table(AsDict([y \in {1, 3} |-> RInt(y)]), AsScalar(RInt(3)),
          AsDict([y \in {2} |-> One]), Missing)

\* (default_growth_rates, default_margins)
Tables ==
    {<<All(AsDict(Dict1(Zero))), All(AsDict(Dict1(One)))>>,
     <<All(AsScalar(One)), All(AsScalar(RInt(2)))>>,
     <<All(Missing), All(Missing)>>,
     <<All(AsDict(EmptyDict)), All(AsDict(EmptyDict))>>,
     <<All(NonNumeric), All(NonNumeric)>>,
     <<MixedGrowth, MixedMargins>>,
     <<All(AsDict(Dict1(Zero))), All(Missing)>>,
     <<All(AsScalar(Zero)), All(NonNumeric)>>}

\* A run over DefaultAnalysisYears years is computed only where nothing
\* compounds: no inflation, and each product sells nothing or grows by 0.
NoGrowth(e) ==
    \/ e.tag = "scalar" /\ e.scalar = Zero
    \/ e.tag = "dict" /\ e.dict = Dict1(Zero)

Computable(d, sc) ==
    \/ sc.analysis_years.isint
    \/ /\ sc.inflation_rate = Zero
       /\ \A p \in Products : base_sales(d, p) = Zero \/ NoGrowth(sc.default_growth_rates[p])

ScenarioOf(ay, t, dr, ir, tr, property, other_year) ==
    [analysis_years |-> ay,
     default_growth_rates |-> t[1],
     default_margins |-> t[2],
     discount_rate |-> dr,
     inflation_rate |-> ir,
     tax_rate |-> tr,
     signage_maintenance |-> RInt(50),
     signage_maintenance_year |-> 2,
     other_maintenance |-> RInt(20),
     other_maintenance_year |-> other_year,
     insurance_property |-> property]

\* scenarios with no insurance rate and the other maintenance in year 1, and
\* some with a property rate of 2% and the other maintenance in year 1 or in
\* year 2, the year of the signage maintenance
Scenarios ==
    {ScenarioOf(ay, t, dr, ir, tr, None, 1) :
        ay \in AnalysisYears, t \in Tables,
        dr \in {Zero, One, RInt(-1)}, ir \in {Zero, One}, tr \in {Zero, Half}}
    \cup {ScenarioOf(ay, <<MixedGrowth, MixedMargins>>, Zero, ir, Half, <<1, 50>>, oy) :
            ay \in AnalysisYears, ir \in {Zero, One}, oy \in {1, 2}}

Init ==
    /\ dealer \in Dealers
    /\ scenario \in Scenarios
    /\ Computable(dealer, scenario)
    /\ dealer0 = dealer
    /\ scenario0 = scenario
    /\ results = <<>>
    /\ cash_flows = <<>>
    /\ discount_rate = Zero
    /\ call = "none"
    /\ out = None
    /\ numpy_has_irr \in BOOLEAN
    /\ args = NoArgs

RunScenario ==
    /\ Len(results) < MaxCalls
    /\ \E r \in {run_scenario(dealer, scenario)} :
           /\ scenario' = r.scenario
           /\ results' = Append(results, r.outcome)
    /\ UNCHANGED <<dealer, dealer0, scenario0, cash_flows, discount_rate, call, out,
                   numpy_has_irr, args>>

Next == RunScenario

Spec == Init /\ [][Next]_vars

---------------------------------------------------------------------------
(* A scenario built through safely_create_scenario: SafeSpec draws the     *)
(* keyword arguments (scenario0 keeps them), builds the scenario from them *)
(* through safely_create_scenario or directly, and calls run_scenario.      *)

\* growth_rates[product] = {} for a product that is missing or has no dict
safe_table(entry) == IF entry.tag = "dict" THEN entry ELSE AsDict(EmptyDict)

\* safely_create_scenario(**kwargs): the Scenario of the arguments, its two
\* tables given a dict for each product
safely_create_scenario(kwargs) ==
    [kwargs EXCEPT
        !.default_growth_rates = [p \in Products |-> safe_table(kwargs.default_growth_rates[p])],
        !.default_margins = [p \in Products |-> safe_table(kwargs.default_margins[p])]]

SafeInit ==
    /\ Init
    /\ scenario.discount_rate = Zero
    /\ Computable(dealer, safely_create_scenario(scenario))

SafelyCreateScenario ==
    /\ call = "none"
    /\ results = <<>>
    /\ call' = "safely_create_scenario"
    /\ scenario' = safely_create_scenario(scenario)
    /\ UNCHANGED <<dealer, dealer0, scenario0, results, cash_flows, discount_rate, out,
                   numpy_has_irr, args>>

SafeNext == SafelyCreateScenario \/ RunScenario

SafeSpec == SafeInit /\ [][SafeNext]_vars

---------------------------------------------------------------------------
(* calculate_product_sales and calculate_product_revenue called on their   *)
(* own: SalesSpec draws a base volume, a schedule (a scalar, or a mapping  *)
(* from years to values), a number of years and an inflation rate, and     *)
(* applies one of the two methods.  What a call leaves in `out` is the     *)
(* dense table it built (its local all_growth_rates or all_margins) and    *)
(* the series it returned.                                                 *)

MaxHorizon == 3

BaseSales == {Zero, One, RInt(1000)}
RateValues == {Zero, Half, One, RInt(-1)}

\* mappings with no key, one key, or two keys one or two years apart
Schedules ==
    {EmptyDict}
    \cup {[y \in {k} |-> v] : k \in 1..(MaxHorizon + 1), v \in RateValues}
    \cup {[y \in {k, k + gap} |-> IF y = k THEN v ELSE w] :
            k \in 1..2, gap \in 1..2, v \in {Zero, One}, w \in {Half, RInt(3)}}

Entries ==
    {AsDict(m) : m \in Schedules} \cup {AsScalar(v) : v \in RateValues} \cup {NonNumeric}

\* the sales_volumes of a revenue call: the volumes of a base growing by 1/2
volumes_of(base, years) == calculate_product_sales(base, AsScalar(Half), years)

SalesInit ==
    /\ args \in [base_sales : BaseSales, rates : Entries,
                  years : 0..MaxHorizon, inflation_rate : {Zero, One}]
    /\ call = "none"
    /\ out = None
    /\ cash_flows = <<>>
    /\ discount_rate = Zero
    /\ numpy_has_irr = TRUE
    /\ dealer = NoDealer /\ dealer0 = NoDealer
    /\ scenario = NoScenario /\ scenario0 = NoScenario
    /\ results = <<>>

CalculateProductSales ==
    /\ call = "none"
    /\ call' = "calculate_product_sales"
    /\ out' = [all_growth_rates |-> all_growth_rates(args.rates, args.years),
               yearly_sales |-> calculate_product_sales(args.base_sales, args.rates, args.years)]
    /\ UNCHANGED <<dealer, scenario, dealer0, scenario0, results, cash_flows,
                   discount_rate, numpy_has_irr, args>>

CalculateProductRevenue ==
    /\ call = "none"
    /\ call' = "calculate_product_revenue"
    /\ out' = [all_margins |-> all_margins(args.rates, args.years),
               yearly_revenue |->
                   calculate_product_revenue(volumes_of(args.base_sales, args.years),
                                             args.rates, args.years, args.inflation_rate)]
    /\ UNCHANGED <<dealer, scenario, dealer0, scenario0, results, cash_flows,
                   discount_rate, numpy_has_irr, args>>

SalesNext == CalculateProductSales \/ CalculateProductRevenue

SalesSpec == SalesInit /\ [][SalesNext]_vars

---------------------------------------------------------------------------
(* The claims.                                                             *)

Calls == 1..Len(results)
Returned(i) == ~results[i].raised

\* the horizon a call on the scenario as constructed runs over
Horizon == normalize_years(scenario0.analysis_years).value

\* the error kinds the interface names for invalid input; no line of the
\* code raises either
InvalidScenario == <<4, 0>>
InvalidSubject == <<5, 0>>

NegativeSubject ==
    \/ \E p \in Products : RSign(base_sales(dealer0, p)) < 0
    \/ RSign(dealer0.initial_investment) < 0

\* C1: every result run_scenario returns has a cash-flow vector of exactly
\* horizon + 1 entries whose entry 0 is -initial_investment.
C1_VectorShape ==
    \A i \in Calls : Returned(i) =>
        /\ Len(results[i].result.cash_flows) = results[i].result.years + 1
        /\ results[i].result.cash_flows[1] = RNeg(dealer0.initial_investment)

\* C1, for the horizons the interface accepts and horizon 0: the same shape.
C1_VectorShapeFromHorizon0 ==
    \A i \in Calls : Returned(i) /\ results[i].result.years >= 0 =>
        /\ Len(results[i].result.cash_flows) = results[i].result.years + 1
        /\ results[i].result.cash_flows[1] = RNeg(dealer0.initial_investment)

\* C2: a call with horizon < 1 fails with InvalidScenario, a call with a
\* negative base volume or a negative initial investment with InvalidSubject;
\* neither returns a result.
C2_InvalidInputRejected ==
    \A i \in Calls :
        /\ Horizon < 1 => results[i].raised /\ results[i].error = InvalidScenario
        /\ Horizon >= 1 /\ NegativeSubject =>
              results[i].raised /\ results[i].error = InvalidSubject

\* C3: after any call the scenario's analysis_years, default_growth_rates and
\* default_margins and every dealer field are what they were before it.
C3_InputsUntouched ==
    Len(results) > 0 =>
        /\ scenario.analysis_years = scenario0.analysis_years
        /\ scenario.default_growth_rates = scenario0.default_growth_rates
        /\ scenario.default_margins = scenario0.default_margins
        /\ dealer = dealer0

\* C4: calling run_scenario again on the same dealer and scenario objects
\* yields the outcome of the first call: the same vectors, yearly breakdown
\* and metrics.
C4_SameResultAgain ==
    \A i \in Calls : results[i] = results[1]

\* C4 witness: a second call has returned, after a first call that was given
\* scalars or tables with products missing (and wrote the scenario).
C4_SecondCallAfterScalars ==
    /\ Len(results) >= 2
    /\ Returned(2)
    /\ results[2].result.years >= 1
    /\ \E p \in Products : scenario0.default_growth_rates[p].tag \in {"scalar", "missing"}
    /\ RSign(results[2].result.yearly_data.total_revenue[1]) > 0
    /\ scenario # scenario0

\* C5: a numeric failure inside a metric (a division by zero at discount rate
\* -1) never aborts the run: every call returns a result.
C5_NeverAborts ==
    \A i \in Calls : Returned(i)

\* C6: when the vector has no strictly negative or no strictly positive entry,
\* the IRR is None, from calculate_irr and in the irr of calculate_metrics.
NoSignChange == ~(has_negative(cash_flows) /\ has_positive(cash_flows))

C6_IrrUndefinedWithoutSignChange ==
    /\ call = "calculate_irr" /\ NoSignChange => out = None
    /\ call = "calculate_metrics" /\ NoSignChange /\ ~out.raised => out.irr = None

\* C7: when the running sum of the vector is negative at every index, the
\* payback period is None, from calculate_payback_period and in the payback of
\* calculate_metrics.
NeverRecovers == \A i \in 1..Len(cash_flows) : RSign(SumRange(cash_flows, 1, i)) < 0

C7_PaybackUndefinedWithoutRecovery ==
    /\ call = "calculate_payback_period" /\ NeverRecovers => out = None
    /\ call = "calculate_metrics" /\ NeverRecovers /\ ~out.raised => out.payback = None

\* C8: every result of run_scenario carries a discounted payback period, the
\* value calculate_discounted_payback_period gives for its cash-flow vector
\* and the scenario's discount rate.
C8_ResultHasDiscountedPayback ==
    \A i \in Calls : Returned(i) =>
        /\ {"npv", "irr", "mirr", "payback_period", "discounted_payback_period",
            "initial_investment", "years"} \subseteq DOMAIN results[i].result
        /\ GetOr(results[i].result, "discounted_payback_period", None) =
              calculate_discounted_payback_period(results[i].result.cash_flows,
                                                  scenario0.discount_rate)

\* C9 as claimed: calculate_npv at discount rate 0 equals the sum of the
\* entries.
C9_NpvAtZeroIsSum ==
    call = "calculate_npv" /\ discount_rate = Zero => out = RSum(cash_flows)

Hundredths(x) == 100 % x[2] = 0

\* C9 as amended: calculate_npv at discount rate 0 is the sum of the entries
\* rounded to two decimals: a whole number of hundredths, at most 0.005 from
\* the sum, and the sum itself when that is a whole number of hundredths.
C9_NpvAtZeroIsRoundedSum ==
    call = "calculate_npv" /\ discount_rate = Zero =>
        /\ Hundredths(out)
        /\ RLe(RAbs(RSub(out, RSum(cash_flows))), <<1, 200>>)
        /\ Hundredths(RSum(cash_flows)) => out = RSum(cash_flows)

\* C9 witness: calculate_npv at rate 0 has returned a rounded sum
C9_RoundedSumReturned ==
    /\ call = "calculate_npv" /\ discount_rate = Zero
    /\ Len(cash_flows) >= 2
    /\ out # RSum(cash_flows)

\* |x| <= s / 1000000 for a number x and a positive number s, by comparing
\* whole parts first so that no product leaves the integer range
WithinMillionth(x, s) ==
    LET a == Abs(x[1])
        target == 1000000 * s[2]
    IN  IF a = 0 THEN TRUE
        ELSE IF x[2] \div a # target \div s[1] THEN x[2] \div a > target \div s[1]
        ELSE (x[2] % a) * s[1] >= (target % s[1]) * a

SumAbs(xs) == RSum([i \in 1..Len(xs) |-> RAbs(xs[i])])

\* C10 as claimed: at the value calculate_irr returns the NPV is zero within
\* 1e-6 of the size of the flows.
C10_NpvZeroAtReturnedRate ==
    call = "calculate_irr" /\ IsNum(out) =>
        /\ ~DivisionByZero(cash_flows, out)
        /\ WithinMillionth(ExactNpv(cash_flows, out), SumAbs(cash_flows))

\* C10 as amended: what calculate_irr returns is a percentage: 100 times the
\* rate numpy's irr found, rounded to two decimals; the NPV is zero at that
\* rate, which is within 0.00005 of the returned value / 100.
C10_ReturnsRoundedPercentage ==
    call = "calculate_irr" /\ IsNum(out) =>
        /\ IsNum(np_irr(cash_flows))
        /\ ExactNpv(cash_flows, np_irr(cash_flows)) = Zero
        /\ Hundredths(out)
        /\ RLe(RAbs(RSub(RDiv(out, RInt(100)), np_irr(cash_flows))), <<1, 20000>>)

\* C10 witness: calculate_irr has returned a percentage that rounding changed
C10_RoundedPercentageReturned ==
    /\ call = "calculate_irr" /\ IsNum(out)
    /\ Len(cash_flows) = 3 /\ cash_flows[3] # Zero
    /\ out # RMul(RInt(100), np_irr(cash_flows))

\* the running sum of the vector up to Python index t
Cumulative(t) == SumRange(cash_flows, 1, t + 1)

Floor(x) == x[1] \div x[2]
Ceil(x) == -((-x[1]) \div x[2])
Whole(x) == x[2] = 1

\* C11 as claimed: when calculate_payback_period returns p, the running sum
\* is negative at index floor(p) and >= 0 at index ceil(p), also for whole p.
C11_NegativeAtFloor ==
    call = "calculate_payback_period" /\ IsNum(out) =>
        /\ RSign(Cumulative(Floor(out))) < 0
        /\ RSign(Cumulative(Ceil(out))) >= 0

\* C11 as amended: when calculate_payback_period returns p, with i the first
\* index whose running sum is >= 0: p = 0 when i = 0, and i - 1 <= p <= i
\* otherwise; so for p not whole the running sum is negative at floor(p) and
\* >= 0 at ceil(p), and for p whole it is >= 0 at p or first at p + 1.
C11_PaybackWithinRecoveryYear ==
    call = "calculate_payback_period" /\ IsNum(out) =>
        /\ \E i \in 0..(Len(cash_flows) - 1) :
              /\ \A j \in 0..(i - 1) : RSign(Cumulative(j)) < 0
              /\ RSign(Cumulative(i)) >= 0
              /\ i = 0 => out = Zero
              /\ i > 0 => RLe(RInt(i - 1), out) /\ RLe(out, RInt(i))
        /\ ~Whole(out) =>
              RSign(Cumulative(Floor(out))) < 0 /\ RSign(Cumulative(Ceil(out))) >= 0

\* C11 witness: a payback of a whole number of years >= 1 has been returned,
\* the running sum being exactly 0 there
C11_WholeYearPayback ==
    /\ call = "calculate_payback_period" /\ IsNum(out)
    /\ Whole(out) /\ RSign(out) > 0
    /\ Cumulative(Floor(out)) = Zero


\* the pre-tax amount of year y as the returned yearly data give it
Pretax(r, y) ==
    RAdd(RSub(RSub(RSub(r.yearly_data.total_revenue[y], r.yearly_data.operating_costs[y]),
                   r.yearly_data.maintenance[y]),
              r.yearly_data.insurance[y]),
         r.yearly_data.rental_income[y])

NetOfTax(pretax, tax_rate) ==
    IF RSign(pretax) < 0 THEN pretax ELSE RMul(pretax, RSub(One, tax_rate))

\* C12: in every result returned, the net cash flow of each year y in
\* 1..horizon is pretax - max(0, pretax) * tax_rate, where pretax is
\* total_revenue[y] - operating_costs[y] - maintenance[y] - insurance[y]
\* + rental_income[y]: a negative pretax is the cash flow unchanged, a
\* pretax >= 0 is reduced by the tax rate.
C12_LossesNeverCredited ==
    \A i \in Calls : Returned(i) =>
        \A y \in 1..results[i].result.years :
            results[i].result.cash_flows[y + 1]
                = NetOfTax(Pretax(results[i].result, y), scenario0.tax_rate)

\* C12 happens: a result at a non-zero tax rate with a year of loss and a
\* year of profit
C12_LossAndProfitTaxed ==
    /\ RSign(scenario0.tax_rate) > 0
    /\ \E i \in Calls :
          /\ Returned(i)
          /\ \E y \in 1..results[i].result.years : RSign(Pretax(results[i].result, y)) < 0
          /\ \E y \in 1..results[i].result.years : RSign(Pretax(results[i].result, y)) > 0

\* the scenario as constructed gives some product a growth rate or a margin
\* that is a scalar no number can be made of
NonNumericScalar ==
    \E p \in Products :
        \/ scenario0.default_growth_rates[p].tag = "nonnumeric"
        \/ scenario0.default_margins[p].tag = "nonnumeric"

\* C13: a run on a scenario with a non-numeric scalar growth rate or margin
\* reports an error to the caller; it never puts a default value in its
\* place and returns a result.
C13_NonNumericScalarReported ==
    NonNumericScalar => \A i \in Calls : results[i].raised

\* the mapping {1: s} for the scalar s the call was given
ScalarAsMapping == AsDict(Dict1(args.rates.scalar))

\* C14: a numeric scalar s passed to calculate_product_sales or
\* calculate_product_revenue gives every year 1..years the value s in the
\* dense table, and exactly the table and the series the mapping {1: s} gives.
C14_ScalarAsYearOneMapping ==
    call # "none" /\ args.rates.tag = "scalar" =>
        /\ call = "calculate_product_sales" =>
              /\ out.all_growth_rates = [y \in 1..args.years |-> args.rates.scalar]
              /\ out.all_growth_rates = all_growth_rates(ScalarAsMapping, args.years)
              /\ out.yearly_sales
                    = calculate_product_sales(args.base_sales, ScalarAsMapping, args.years)
        /\ call = "calculate_product_revenue" =>
              /\ out.all_margins = [y \in 1..args.years |-> args.rates.scalar]
              /\ out.all_margins = all_margins(ScalarAsMapping, args.years)
              /\ out.yearly_revenue
                    = calculate_product_revenue(volumes_of(args.base_sales, args.years),
                                                ScalarAsMapping, args.years,
                                                args.inflation_rate)

\* C14 happens: a scalar other than the default, over several years, and a
\* series that depends on it
C14_ScalarOverSeveralYears ==
    /\ call = "calculate_product_sales"
    /\ args.rates.tag = "scalar" /\ args.rates.scalar = One
    /\ args.years >= 2
    /\ out.all_growth_rates[args.years] = One
    /\ out.yearly_sales[args.years] # out.yearly_sales[0]

\* the volume and the revenue series of a product in a result
SalesSeries(r, p) ==
    CASE p = "pmg" -> r.yearly_data.pmg_sales
      [] p = "hsd" -> r.yearly_data.hsd_sales
      [] p = "hobc" -> r.yearly_data.hobc_sales
      [] p = "lube" -> r.yearly_data.lube_sales

RevenueSeries(r, p) ==
    CASE p = "pmg" -> r.yearly_data.pmg_revenue
      [] p = "hsd" -> r.yearly_data.hsd_revenue
      [] p = "hobc" -> r.yearly_data.hobc_revenue
      [] p = "lube" -> r.yearly_data.lube_revenue

\* a schedule that is a mapping with no key <= years (the empty one included)
NoKeyWithin(entry, years) ==
    entry.tag = "dict" /\ defined_years(entry.dict, years) = {}

\* C15: a product whose growth schedule is empty or has no key <= horizon
\* grows in every year 1..horizon by its own default (pmg 0.05, hsd 0.05,
\* hobc 0.06, lube 0.01), and one whose margin schedule is so earns in every
\* year its own default margin (pmg 5, hsd 4, hobc 6, lube 100; inflated from
\* year 1 on), not a default shared by all products.
C15_OwnDefaultWhenEmpty ==
    \A i \in Calls : Returned(i) =>
        \A p \in Products : \A y \in 1..results[i].result.years :
            /\ NoKeyWithin(scenario0.default_growth_rates[p], results[i].result.years) =>
                  SalesSeries(results[i].result, p)[y]
                      = RMul(SalesSeries(results[i].result, p)[y - 1],
                             RAdd(One, get_default_growth(p)))
            /\ NoKeyWithin(scenario0.default_margins[p], results[i].result.years) =>
                  RevenueSeries(results[i].result, p)[y]
                      = RMul(SalesSeries(results[i].result, p)[y],
                             RMul(default_values(p), inflation_factor(scenario0, y)))

\* the dense table the call built, and the schedule it was given
DenseTable ==
    IF call = "calculate_product_sales" THEN out.all_growth_rates ELSE out.all_margins

SingleKey(k) == args.rates.tag = "dict" /\ DOMAIN args.rates.dict = {k}

\* C16: for a horizon H >= 1 and a schedule with exactly one key k,
\* 1 <= k <= H, of value v, the dense table has H entries, all equal to v:
\* the years below k and the years above k take the value of k.
C16_SingleKeyIsFlat ==
    call # "none" /\ args.years >= 1 =>
        \A k \in 1..args.years : SingleKey(k) =>
            DenseTable = [y \in 1..args.years |-> args.rates.dict[k]]

\* C16 happens: one key strictly inside the horizon, of a value that is not
\* the default, and years on both sides of it
C16_KeyInsideHorizon ==
    /\ call = "calculate_product_revenue"
    /\ args.years = 3 /\ SingleKey(2) /\ args.rates.dict[2] = RInt(-1)
    /\ DenseTable[1] = RInt(-1) /\ DenseTable[3] = RInt(-1)

ZeroVolumes == \A p \in Products : base_sales(dealer0, p) = Zero

\* every volume series, every revenue series and the total revenue of a
\* result are 0 in all years 0..years
AllSeriesZero(r) ==
    \A y \in 0..r.years :
        /\ \A p \in Products : SalesSeries(r, p)[y] = Zero /\ RevenueSeries(r, p)[y] = Zero
        /\ r.yearly_data.total_revenue[y] = Zero

Costs(r, y) ==
    RAdd(RAdd(r.yearly_data.operating_costs[y], r.yearly_data.maintenance[y]),
         r.yearly_data.insurance[y])

Discounted(amount, rate, y) == RDiv(amount, RPow(RAdd(One, rate), y))

\* -initial_investment plus the discounted sum of the negated yearly costs
NpvOfCosts(r, rate) ==
    RAdd(RNeg(r.initial_investment),
         SumRange([y \in 1..r.years |-> Discounted(RNeg(Costs(r, y)), rate, y)],
                  1, r.years))

\* -initial_investment plus the discounted sum of the yearly rental income
\* less the costs, a positive difference taxed
NpvOfRentLessCosts(r, rate, tax_rate) ==
    RAdd(RNeg(r.initial_investment),
         SumRange([y \in 1..r.years |->
                    Discounted(NetOfTax(RSub(r.yearly_data.rental_income[y], Costs(r, y)),
                                        tax_rate),
                               rate, y)],
                  1, r.years))

\* C17 as claimed: with all four base volumes 0 every volume and revenue
\* series and the total revenue are 0 in all years 0..horizon, and the NPV is
\* -initial_investment plus the discounted sum of the negated yearly costs
\* (operating costs, maintenance, insurance), no tax applied.
C17_NpvOfCostsOnly ==
    ZeroVolumes => \A i \in Calls : Returned(i) =>
        /\ AllSeriesZero(results[i].result)
        /\ results[i].result.npv = NpvOfCosts(results[i].result, scenario0.discount_rate)

\* C17 as amended: with all four base volumes 0 every volume and revenue
\* series and the total revenue are 0 in all years 0..horizon, and the NPV is,
\* rounded to two decimals, -initial_investment plus the discounted sum of the
\* yearly rental income less the costs, a positive difference taxed; with no
\* rental income and no negative costs that is the rounded NPV of the
\* negated costs.
C17_NpvOfRentLessCosts ==
    ZeroVolumes => \A i \in Calls : Returned(i) =>
        /\ AllSeriesZero(results[i].result)
        /\ results[i].result.npv
              = Round2(NpvOfRentLessCosts(results[i].result, scenario0.discount_rate,
                                          scenario0.tax_rate))
        /\ (/\ dealer0.rental_streams = <<>>
            /\ \A y \in 1..results[i].result.years :
                  RSign(Costs(results[i].result, y)) >= 0) =>
              results[i].result.npv
                  = Round2(NpvOfCosts(results[i].result, scenario0.discount_rate))

\* C17 happens: a dealer that sells nothing and lets a unit, under schedules
\* that are not flat, over two years at a non-zero tax rate
C17_ZeroVolumesWithRent ==
    /\ ZeroVolumes /\ dealer0.rental_streams # <<>>
    /\ scenario0.default_growth_rates = MixedGrowth
    /\ RSign(scenario0.tax_rate) > 0
    /\ \E i \in Calls :
          /\ Returned(i) /\ results[i].result.years = 2
          /\ results[i].result.npv # NpvOfCosts(results[i].result, scenario0.discount_rate)

\* each product's growth rate and margin is a numeric scalar or a mapping
ScalarOrMapping ==
    \A p \in Products :
        /\ scenario0.default_growth_rates[p].tag \in {"scalar", "dict"}
        /\ scenario0.default_margins[p].tag \in {"scalar", "dict"}

\* C18: run_scenario returns a result, and raises nothing, for every scenario
\* whose growth rates and margins are each a numeric scalar or a year-to-value
\* mapping, in any mixture across the products.
C18_ScalarOrMappingReturns ==
    ScalarOrMapping => \A i \in Calls : Returned(i)

\* what holds instead: such a run returns unless the discount rate is -1,
\* where the NPV divides by zero
C18_ReturnsUnlessRateMinusOne ==
    ScalarOrMapping /\ scenario0.discount_rate # RInt(-1) => \A i \in Calls : Returned(i)

\* the keys of the schedule that lie within the horizon
KeysWithin == {k \in DOMAIN args.rates.dict : k <= args.years}

Below(keys, y) == {k \in keys : k < y}
Above(keys, y) == {k \in keys : k > y}

Linear(lower, lower_value, upper, upper_value, y) ==
    RAdd(lower_value,
         RDiv(RMul(RSub(upper_value, lower_value), RInt(y - lower)), RInt(upper - lower)))

\* the dense value of year y by the rule: the key's own value, else the
\* nearest key above when none is below, the nearest key below when none is
\* above, else the linear interpolation between the two
DenseValue(rates, keys, y) ==
    IF y \in keys THEN rates[y]
    ELSE IF Below(keys, y) = {} THEN rates[SetMin(Above(keys, y))]
    ELSE IF Above(keys, y) = {} THEN rates[SetMax(Below(keys, y))]
    ELSE Linear(SetMax(Below(keys, y)), rates[SetMax(Below(keys, y))],
                SetMin(Above(keys, y)), rates[SetMin(Above(keys, y))], y)

\* C19 as amended: for a schedule with a key within the horizon, every year y in
\* 1..horizon that is a key has the key's value verbatim; any other year has,
\* with lower and upper the nearest keys below and above y among the keys
\* <= horizon, upper's value when there is no lower, lower's value when there
\* is no upper, and lower_value + (upper_value - lower_value) * (y - lower)
\* / (upper - lower) when both exist.
C19_InterpolationRule ==
    call # "none" /\ args.rates.tag = "dict" /\ KeysWithin # {} =>
        /\ DOMAIN DenseTable = 1..args.years
        /\ \A y \in 1..args.years :
              DenseTable[y] = DenseValue(args.rates.dict, KeysWithin, y)

\* the value x of year y follows the rule of C19; where the rule names a key
\* there has to be one
FollowsRule(x, rates, keys, y) ==
    IF y \in keys THEN x = rates[y]
    ELSE IF Below(keys, y) = {} THEN Above(keys, y) # {} /\ x = rates[SetMin(Above(keys, y))]
    ELSE IF Above(keys, y) = {} THEN x = rates[SetMax(Below(keys, y))]
    ELSE x = Linear(SetMax(Below(keys, y)), rates[SetMax(Below(keys, y))],
                    SetMin(Above(keys, y)), rates[SetMin(Above(keys, y))], y)

\* C19 as claimed, for every non-empty schedule: every year y in 1..horizon
\* has the value the rule gives it from the keys <= horizon.
C19_InterpolationRuleNonEmpty ==
    call # "none" /\ args.rates.tag = "dict" /\ DOMAIN args.rates.dict # {} =>
        \A y \in 1..args.years :
            FollowsRule(DenseTable[y], args.rates.dict, KeysWithin, y)

\* C19 happens: a year between two keys takes the value half way between
\* theirs
C19_InterpolatedBetweenKeys ==
    /\ call = "calculate_product_sales"
    /\ args.rates.tag = "dict" /\ args.years = 3
    /\ KeysWithin = {1, 3}
    /\ args.rates.dict[1] = Zero /\ args.rates.dict[3] = RInt(3)
    /\ DenseTable[2] = <<3, 2>>

\* C20: the volume series of calculate_product_sales has series[0] =
\* base_sales * 365 and, for every y in 1..years, series[y] = series[y - 1]
\* * (1 + growth[y]) with growth the dense table; a base of 1000 a day gives
\* a year-0 volume of exactly 365000.
C20_AnnualisedAndCompounded ==
    call = "calculate_product_sales" =>
        /\ DOMAIN out.yearly_sales = 0..args.years
        /\ out.yearly_sales[0] = RMul(args.base_sales, RInt(365))
        /\ \A y \in 1..args.years :
              out.yearly_sales[y]
                  = RMul(out.yearly_sales[y - 1], RAdd(One, out.all_growth_rates[y]))
        /\ args.base_sales = RInt(1000) => out.yearly_sales[0] = RInt(365000)

\* C20 happens: 1000 a day, growing at different rates over three years
C20_ThousandADayGrowing ==
    /\ call = "calculate_product_sales"
    /\ args.base_sales = RInt(1000) /\ args.years = 3
    /\ out.all_growth_rates[1] # out.all_growth_rates[2]
    /\ out.yearly_sales[0] = RInt(365000)
    /\ RLt(out.yearly_sales[1], out.yearly_sales[2])
    /\ RLt(out.yearly_sales[2], out.yearly_sales[3])

\* the volume series the revenue call was given
Volume == volumes_of(args.base_sales, args.years)

\* C21: for a horizon >= 1, revenue[0] = volume[0] * margin[1] with no
\* inflation applied, and for every y in 1..horizon revenue[y] = volume[y]
\* * margin[y] * (1 + inflation_rate)^(y - 1), margin being the dense table;
\* the exponent is y - 1 for a margin given directly and for an interpolated
\* one.
C21_RevenueFromInflatedMargin ==
    call = "calculate_product_revenue" /\ args.years >= 1 =>
        /\ DOMAIN out.yearly_revenue = 0..args.years
        /\ out.yearly_revenue[0] = RMul(Volume[0], out.all_margins[1])
        /\ \A y \in 1..args.years :
              out.yearly_revenue[y]
                  = RMul(RMul(Volume[y], out.all_margins[y]),
                         RPow(RAdd(One, args.inflation_rate), y - 1))

\* C21 happens: a margin interpolated for year 2 between the keys 1 and 3,
\* under inflation, on a volume that is not 0
C21_InterpolatedMarginInflated ==
    /\ call = "calculate_product_revenue"
    /\ args.rates.tag = "dict" /\ DOMAIN args.rates.dict = {1, 3} /\ args.years = 3
    /\ args.inflation_rate = One /\ args.base_sales = One
    /\ out.all_margins[2] \notin {out.all_margins[1], out.all_margins[3]}
    /\ out.yearly_revenue[2] = RMul(RMul(Volume[2], out.all_margins[2]), RInt(2))
    /\ RSign(out.yearly_revenue[2]) > 0

\* (1 + inflation_rate)^(y - 1) of the scenario as constructed
Inflation(y) == RPow(RAdd(One, scenario0.inflation_rate), y - 1)

\* the insurance rate the scenario provides, 1% when it provides none
RateProvided ==
    IF scenario0.insurance_property = None THEN <<1, 100>> ELSE scenario0.insurance_property

OperatingCostsAsClaimed(r) ==
    \A y \in 0..r.years :
        r.yearly_data.operating_costs[y]
            = IF y = 0 THEN Zero
              ELSE RMul(RMul(dealer0.operating_costs, RInt(12)), Inflation(y))

InsuranceAsClaimed(r) ==
    \A y \in 0..r.years :
        r.yearly_data.insurance[y]
            = IF y = 0 THEN Zero
              ELSE RMul(RMul(dealer0.initial_investment, RateProvided), Inflation(y))

\* C22: in every result of run_scenario the operating cost and the insurance
\* are 0 in year 0, and for every y in 1..horizon operating_costs[y] =
\* monthly operating costs * 12 * (1 + inflation)^(y - 1) and insurance[y] =
\* initial_investment * insurance_rate * (1 + inflation)^(y - 1), the rate
\* being 1% when the scenario provides none.
C22_CostsAndInsuranceInflated ==
    \A i \in Calls : Returned(i) =>
        /\ DOMAIN results[i].result.yearly_data.operating_costs = 0..results[i].result.years
        /\ DOMAIN results[i].result.yearly_data.insurance = 0..results[i].result.years
        /\ OperatingCostsAsClaimed(results[i].result)
        /\ InsuranceAsClaimed(results[i].result)

\* C22 happens: no insurance rate provided, inflation, and an insurance of 1%
\* of the investment doubled in year 2
C22_DefaultRateInflated ==
    /\ scenario0.insurance_property = None /\ scenario0.inflation_rate = One
    /\ dealer0.initial_investment = RInt(1000)
    /\ \E i \in Calls :
          /\ Returned(i) /\ results[i].result.years = 2
          /\ results[i].result.yearly_data.insurance[0] = Zero
          /\ results[i].result.yearly_data.insurance[2] = RInt(20)
          /\ results[i].result.yearly_data.operating_costs[2] = RInt(2400)

SignageYear(y) == y % scenario0.signage_maintenance_year = 0
OtherYear(y) == y = scenario0.other_maintenance_year

MaintenanceAsClaimed(y) ==
    CASE SignageYear(y) /\ OtherYear(y) ->
            RAdd(RMul(scenario0.signage_maintenance, Inflation(y)),
                 RMul(scenario0.other_maintenance, Inflation(y)))
      [] SignageYear(y) /\ ~OtherYear(y) -> RMul(scenario0.signage_maintenance, Inflation(y))
      [] ~SignageYear(y) /\ OtherYear(y) -> RMul(scenario0.other_maintenance, Inflation(y))
      [] OTHER -> Zero

\* C23: in every result, for every y in 1..horizon, maintenance[y] is
\* signage_maintenance * (1 + inflation)^(y - 1) if y is a multiple of
\* signage_maintenance_year, plus other_maintenance * (1 + inflation)^(y - 1)
\* if y is other_maintenance_year; both are added when both fall in the same
\* year, and in every other year the maintenance is 0.
C23_MaintenanceEventsAdded ==
    \A i \in Calls : Returned(i) =>
        \A y \in 1..results[i].result.years :
            results[i].result.yearly_data.maintenance[y] = MaintenanceAsClaimed(y)

\* C23 happens: both events in year 2, none in year 1, under inflation
C23_BothEventsInOneYear ==
    /\ scenario0.inflation_rate = One
    /\ \E i \in Calls :
          /\ Returned(i) /\ results[i].result.years = 2
          /\ SignageYear(2) /\ OtherYear(2)
          /\ results[i].result.yearly_data.maintenance[1] = Zero
          /\ results[i].result.yearly_data.maintenance[2] = RInt(140)

\* the monthly rents of the streams that cover year y, added up
ActiveRent(y) ==
    SumRange([k \in 1..Len(dealer0.rental_streams) |->
                IF dealer0.rental_streams[k].start_year <= y
                   /\ y <= dealer0.rental_streams[k].end_year
                THEN dealer0.rental_streams[k].monthly_rent ELSE Zero],
             1, Len(dealer0.rental_streams))

Covered(y) ==
    \E k \in 1..Len(dealer0.rental_streams) :
        dealer0.rental_streams[k].start_year <= y /\ y <= dealer0.rental_streams[k].end_year

\* C24: in every result, for every y in 1..horizon, rental_income[y] is the
\* sum over the rental streams with start_year <= y <= end_year of
\* monthly_rent * 12 * (1 + inflation)^(y - 1): overlapping streams add up,
\* and a year no stream covers has rental income 0.
C24_RentalStreamsAdded ==
    \A i \in Calls : Returned(i) =>
        \A y \in 1..results[i].result.years :
            /\ results[i].result.yearly_data.rental_income[y]
                  = RMul(RMul(ActiveRent(y), RInt(12)), Inflation(y))
            /\ ~Covered(y) => results[i].result.yearly_data.rental_income[y] = Zero

\* C24 happens: two streams overlap in year 1, one of them runs on in year 2
\* under inflation
C24_OverlappingStreams ==
    /\ Len(dealer0.rental_streams) = 2 /\ scenario0.inflation_rate = One
    /\ \E i \in Calls :
          /\ Returned(i) /\ results[i].result.years = 2
          /\ results[i].result.yearly_data.rental_income[1] = RInt(180)
          /\ results[i].result.yearly_data.rental_income[2] = RInt(120)

\* TV: the positive entries, each compounded to the final year at the rate
TV(rate) ==
    SumRange([i \in 1..Len(cash_flows) |->
                IF RSign(cash_flows[i]) > 0
                THEN RMul(cash_flows[i], RPow(RAdd(One, rate), Len(cash_flows) - i))
                ELSE Zero],
             1, Len(cash_flows))

\* PV: the absolute values of the negative entries, each discounted at the rate
PV(rate) ==
    SumRange([i \in 1..Len(cash_flows) |->
                IF RSign(cash_flows[i]) < 0
                THEN RDiv(RNeg(cash_flows[i]), RPow(RAdd(One, rate), i - 1))
                ELSE Zero],
             1, Len(cash_flows))

\* C25: the MIRR calculate_metrics returns is (TV / PV)^(1 / horizon) - 1,
\* TV the positive entries compounded to the final year at the reinvestment
\* rate (the discount rate, none being given) and PV the absolute values of
\* the negative entries discounted at the discount rate; it is 0 when the
\* vector has no positive or no negative entry.
C25_MirrFromTerminalAndPresentValue ==
    call = "calculate_metrics" /\ ~out.raised =>
        out.mirr = IF NoSignChange THEN MirrZero
                   ELSE [base |-> RDiv(TV(discount_rate), PV(discount_rate)),
                         root |-> Len(cash_flows) - 1]

\* C25 happens: an investment, a return in year 1 that is compounded and one
\* in year 2, at a discount rate of 1/2
C25_MirrOfThreeFlows ==
    /\ call = "calculate_metrics" /\ ~out.raised
    /\ cash_flows = <<RInt(-3), One, RInt(4)>> /\ discount_rate = Half
    /\ out.mirr = [base |-> <<11, 6>>, root |-> 2]

\* the indices at which the running sum of the vector is >= 0
RecoveryYears == {i \in 0..(Len(cash_flows) - 1) : RSign(Cumulative(i)) >= 0}

\* i - 1 + (-cumulative_before_i) / cf[i] when i > 0 and cf[i] # 0, else i
PaybackAt(i) ==
    IF i > 0 /\ cash_flows[i + 1] # Zero
    THEN RAdd(RInt(i - 1), RDiv(RNeg(Cumulative(i - 1)), cash_flows[i + 1]))
    ELSE RInt(i)

AllPositive == \A t \in 1..Len(cash_flows) : RSign(cash_flows[t]) > 0

\* C26 as claimed: calculate_payback_period returns, for the first index i
\* at which the running sum is >= 0, exactly i - 1 + (-cumulative_before_i)
\* / cf[i] when i > 0 and cf[i] # 0, and i otherwise; 0 for a vector of
\* positive entries.
C26_PaybackExact ==
    call = "calculate_payback_period" =>
        /\ RecoveryYears # {} => out = PaybackAt(SetMin(RecoveryYears))
        /\ AllPositive => out = Zero

\* C26 as amended: the value returned is that amount rounded to two decimals.
C26_PaybackRounded ==
    call = "calculate_payback_period" =>
        /\ RecoveryYears # {} => out = Round2(PaybackAt(SetMin(RecoveryYears)))
        /\ AllPositive => out = Zero

\* C26 happens: a recovery in year 2 after 23/32 of the year's flow, returned
\* as 1.72
C26_RoundedFraction ==
    /\ call = "calculate_payback_period"
    /\ cash_flows = <<RInt(-3), <<1, 8>>, RInt(4)>>
    /\ PaybackAt(SetMin(RecoveryYears)) = <<55, 32>>
    /\ out = <<43, 25>>

\* the vector [cf[t] / (1 + r)^t for t in 0..horizon]
DiscountedVector ==
    [t \in 1..Len(cash_flows) |-> Discounted(cash_flows[t], discount_rate, t - 1)]

\* the vector can be discounted: no entry is divided by (1 + r)^t = 0
Discountable == Len(cash_flows) = 1 \/ discount_rate # RInt(-1)

\* C27: for every vector and discount rate at which the vector can be
\* discounted, calculate_discounted_payback_period(cf, r) is
\* calculate_payback_period of the discounted vector, the undefined outcome
\* included.
C27_DiscountedPaybackIsPaybackOfDiscounted ==
    call = "calculate_discounted_payback_period" /\ Discountable =>
        out = calculate_payback_period(DiscountedVector)

\* C27 happens: discounting moves the recovery from a quarter to half of
\* year 1
C27_DiscountingDelaysPayback ==
    /\ call = "calculate_discounted_payback_period"
    /\ cash_flows = <<RInt(-1), RInt(4)>> /\ discount_rate = One
    /\ out = Half
    /\ calculate_payback_period(cash_flows) = <<1, 4>>

\* the discounted and the cumulative vector of a calculate_metrics result are
\* as long as the cash-flow vector, discounted[t] = cf[t] / (1 + r)^t and
\* cumulative[t] is the sum of cf[0..t]
VectorsOfMetrics ==
    /\ Len(out.discounted_cash_flows) = Len(cash_flows)
    /\ Len(out.cumulative_cash_flows) = Len(cash_flows)
    /\ out.discounted_cash_flows[1] = cash_flows[1]
    /\ \A t \in 0..(Len(cash_flows) - 1) :
          /\ out.discounted_cash_flows[t + 1] = Discounted(cash_flows[t + 1], discount_rate, t)
          /\ out.cumulative_cash_flows[t + 1] = Cumulative(t)

\* C28: in every result of calculate_metrics the discounted and the cumulative
\* vector have the length of the cash-flow vector, discounted[t] = cf[t]
\* / (1 + r)^t, cumulative[t] is the sum of cf[0..t], and the payback period
\* is defined exactly when some cumulative[t] is >= 0.
C28_VectorsAndPaybackDefined ==
    call = "calculate_metrics" /\ ~out.raised =>
        /\ VectorsOfMetrics
        /\ out.payback # None <=> RecoveryYears # {}

\* what holds of C28: the vectors are as claimed, and the payback period is a
\* number whether or not the running sum recovers
C28_VectorsOfEveryResult ==
    call = "calculate_metrics" /\ ~out.raised => VectorsOfMetrics /\ IsNum(out.payback)

\* each product's growth rate and margin in the arguments is a numeric scalar
ScalarTables ==
    \A p \in Products :
        /\ scenario0.default_growth_rates[p].tag = "scalar"
        /\ scenario0.default_margins[p].tag = "scalar"

\* the projection of a Scenario constructed directly from the arguments
Direct == run_scenario(dealer0, scenario0).outcome

SameProjection(r, d) ==
    /\ r.raised = d.raised
    /\ ~r.raised =>
          /\ r.result.yearly_data = d.result.yearly_data
          /\ r.result.cash_flows = d.result.cash_flows

\* C29: a Scenario built through safely_create_scenario from numeric scalar
\* growth rates and margins projects under run_scenario the same volumes,
\* revenues and cash flows as a Scenario constructed directly with the same
\* scalars.
C29_SafelyCreatedProjectsAsDirect ==
    call = "safely_create_scenario" /\ ScalarTables =>
        \A i \in Calls : SameProjection(results[i], Direct)

\* what holds of C29: a scenario constructed directly projects with the
\* scalars of the arguments
C29_DirectProjectsAsDirect ==
    call = "none" /\ ScalarTables => \A i \in Calls : SameProjection(results[i], Direct)

\* a value of the dense table lies between two values the schedule has at
\* keys <= horizon
WithinSupplied(x) ==
    /\ \E k \in KeysWithin : RLe(args.rates.dict[k], x)
    /\ \E k \in KeysWithin : RLe(x, args.rates.dict[k])

\* C30 as claimed: for every non-empty schedule and every horizon, each value
\* of the dense table for the years 1..horizon lies between the minimum and
\* the maximum of the schedule's values at keys <= horizon.
C30_NeverOvershootsNonEmpty ==
    call # "none" /\ args.rates.tag = "dict" /\ DOMAIN args.rates.dict # {} =>
        \A y \in 1..args.years : WithinSupplied(DenseTable[y])

\* C30 as amended: so it is for every schedule that has a key <= horizon (a
\* schedule whose keys all lie beyond the horizon has none of its values in
\* the table).
C30_NeverOvershootsKeysWithin ==
    call # "none" /\ args.rates.tag = "dict" /\ KeysWithin # {} =>
        \A y \in 1..args.years : WithinSupplied(DenseTable[y])

\* C30 happens: a margin interpolated strictly between the two supplied ones
C30_StrictlyBetween ==
    /\ call = "calculate_product_revenue"
    /\ args.rates.tag = "dict" /\ args.years = 3 /\ KeysWithin = {1, 3}
    /\ args.rates.dict[1] = One /\ args.rates.dict[3] = Half
    /\ RLt(Half, DenseTable[2]) /\ RLt(DenseTable[2], One)

=======================================================================
